---------------------------- MODULE Spec2Model ----------------------------
(***************************************************************************)
(* bctop: a terminal dashboard for containers.  The model covers the       *)
(* Application state machine (src/src/app/mod.rs), the IO handler that     *)
(* supervises the single background task (src/src/io/handler.rs) and the   *)
(* background tasks themselves (src/src/container_management/docker.rs).   *)
(*                                                                         *)
(* Strings are sequences of one-character strings, Option<T> is a sequence *)
(* of length 0 (None) or 1 (Some).                                         *)
(***************************************************************************)
EXTENDS Integers, Sequences, FiniteSets, TLC

VARIABLES
    \* ---- struct App (app/mod.rs:20-36)
    containers,          \* Vec<Container>
    actions,             \* Actions: the contextual registry
    state,               \* AppState
    selected_container,  \* Option<String>
    logs,                \* Vec<String>
    log_position,        \* usize, reverse index
    search,              \* Option<String>
    exec_tx,             \* Option<Sender<String>>
    exec_cmd,            \* String
    last_cmd,            \* Option<String>
    \* ---- the foreground loop (lib.rs:30-44)
    ui,                  \* of the last key: the mode it came in, the action it
                         \* resolved to and the AppReturn
    \* ---- channels
    io_queue,            \* mpsc::channel::<IoEvent>, main.rs:31
    exec_chan,           \* mpsc::channel::<String>, app/mod.rs:113
    \* ---- struct IoAsyncHandler (io/handler.rs:14-17) and its task (main.rs:35-40)
    handler,             \* position of the handler task and the event it is handling
    active_task,         \* Option<JoinHandle<()>>
    \* ---- tokio tasks
    tasks,               \* supervised background tasks, by task slot
    refresh,             \* per-container refresh tasks spawned by reconciliation cycles
    \* ---- the container engine daemon
    daemon,              \* ids of the containers the daemon currently lists
    \* ---- one call of a function of the program, taken by itself
    arg,                 \* the arguments of the call
    ret                  \* what the call returned

appvars == <<containers, actions, state, selected_container, logs, log_position,
             search, exec_tx, exec_cmd, last_cmd>>
vars == <<containers, actions, state, selected_container, logs, log_position,
          search, exec_tx, exec_cmd, last_cmd, ui, io_queue, exec_chan,
          handler, active_task, tasks, refresh, daemon, arg, ret>>

----------------------------------------------------------------------------
(* Bounds of the model *)

\* longest log buffer the tasks build in the system specifications
MaxLogs == 1
\* IO events waiting in the channel (the program's capacity is 100, main.rs:31)
MaxIoQueue == 1
\* messages waiting in the exec channel (capacity 100, app/mod.rs:113)
MaxExecChan == 1
\* the longest line of the buffer (SendCMD appends the command to the last line)
MaxLine == 2
\* task slots of the runtime
MaxTasks == 2

----------------------------------------------------------------------------
(* Option, strings, small helpers *)

None == <<>>
Some(x) == <<x>>
is_some(o) == Len(o) > 0
is_none(o) == Len(o) = 0
unwrap(o) == o[1]

Min(S) == CHOOSE x \in S : \A y \in S : x <= y
Contains(seq, x) == \E i \in DOMAIN seq : seq[i] = x
SeqToSet(seq) == {seq[i] : i \in DOMAIN seq}

NL == "\n"
EXIT == <<"e", "x", "i", "t">>

----------------------------------------------------------------------------
(* Keys and actions: app/actions.rs *)

Char(c) == <<"Char", c>>
Ctrl(c) == <<"Ctrl", c>>
Esc == <<"Esc">>
Enter == <<"Enter">>
Up == <<"Up">>
Down == <<"Down">>
Left == <<"Left">>
Right == <<"Right">>
Backspace == <<"Backspace">>

\* Key::get_char: the character of a character key
get_char(key) == IF key[1] = "Char" THEN Some(key[2]) ELSE None

\* Action::iterator: the global enumeration order
ALL_ACTIONS == <<"Quit", "ShowLogs", "ExecCommands", "SendCMD", "Next", "Previous",
             "ScrollUp", "ScrollDown", "Search", "Remove", "StopContainer",
             "PauseContainer">>

\* Action::keys
keys(action) ==
    CASE action = "Quit" -> <<Char("q"), Ctrl("c"), Esc>>
      [] action = "ShowLogs" -> <<Char("l"), Enter>>
      [] action = "ExecCommands" -> <<Char("e")>>
      [] action = "SendCMD" -> <<Enter>>
      [] action = "Next" -> <<Down, Char("n"), Right>>
      [] action = "Previous" -> <<Up, Char("p"), Left>>
      [] action = "Search" -> <<Char("/"), Enter>>
      [] action = "ScrollUp" -> <<Up>>
      [] action = "ScrollDown" -> <<Down>>
      [] action = "Remove" -> <<Backspace>>
      [] action = "StopContainer" -> <<Char("s")>>
      [] action = "PauseContainer" -> <<Char("p")>>

\* a find that does not look at what the registry holds
find_unfiltered(acts, key) ==
    LET hits == {i \in DOMAIN ALL_ACTIONS : Contains(keys(ALL_ACTIONS[i]), key)}
    IN IF hits = {} THEN None ELSE Some(ALL_ACTIONS[Min(hits)])

\* Actions::find: the first action, in enumeration order, that the registry
\* holds and whose key list has the key
find(acts, key) ==
    LET hits == {i \in DOMAIN ALL_ACTIONS :
                    Contains(acts, ALL_ACTIONS[i]) /\ Contains(keys(ALL_ACTIONS[i]), key)}
    IN IF hits = {} THEN None ELSE Some(ALL_ACTIONS[Min(hits)])

\* impl From<Vec<Action>> for Actions: the keys two actions of the list share
conflicts(list) ==
    {k \in UNION {SeqToSet(keys(list[i])) : i \in DOMAIN list} :
        Cardinality({i \in DOMAIN list : Contains(keys(list[i]), k)}) > 1}

\* the actions of the list whose key list has the key, in the order of the list
colliding(list, key) ==
    LET hits == {i \in DOMAIN list : Contains(keys(list[i]), key)}
        nth[n \in 0..Len(list)] ==
            IF n = 0 THEN <<>>
            ELSE IF n \in hits THEN Append(nth[n - 1], list[n]) ELSE nth[n - 1]
    IN nth[Len(list)]

\* a message that reports one of the shared keys only
first_error(list) ==
    IF conflicts(list) = {} THEN {}
    ELSE {[key |-> k, actions |-> colliding(list, k)] :
              k \in {CHOOSE c \in conflicts(list) : TRUE}}

\* the clauses of the panic message: "Conflict key {} with actions {}"
errors(list) == {[key |-> k, actions |-> colliding(list, k)] : k \in conflicts(list)}

\* Actions::from(Vec<Action>): the registry, or the panic with its message
from(list) ==
    IF errors(list) # {}
    THEN [panic |-> TRUE, errors |-> errors(list), registry |-> <<>>]
    ELSE [panic |-> FALSE, errors |-> {}, registry |-> list]

----------------------------------------------------------------------------
(* AppState: app/state.rs *)

Monitoring == [mode |-> "Monitoring", container |-> ""]
Logging(c) == [mode |-> "Logging", container |-> c]
ExecCommand(c) == [mode |-> "ExecCommand", container |-> c]

is_monitoring(st) == st.mode = "Monitoring"
is_logging(st) == st.mode = "Logging"
is_exec_command(st) == st.mode = "ExecCommand"

\* the action lists with PauseContainer among the actions of Monitoring
get_actions_with_pause(st) ==
    IF is_monitoring(st)
    THEN <<"Quit", "ShowLogs", "ExecCommands", "Next", "Previous", "StopContainer",
           "PauseContainer">>
    ELSE IF is_logging(st)
    THEN <<"Quit", "ScrollDown", "ScrollUp", "Search", "Remove">>
    ELSE <<"Quit", "SendCMD">>

get_actions(st) ==
    IF is_monitoring(st)
    THEN <<"Quit", "ShowLogs", "ExecCommands", "Next", "Previous", "StopContainer">>
    ELSE IF is_logging(st)
    THEN <<"Quit", "ScrollDown", "ScrollUp", "Search", "Remove">>
    ELSE IF is_exec_command(st)
    THEN <<"Quit", "SendCMD">>
    ELSE <<"Quit">>

----------------------------------------------------------------------------
(* struct App and its operations: app/mod.rs.  The operations are functions *)
(* from the App value to the App value they leave, the AppReturn, the IO    *)
(* events dispatched and the strings sent on the exec channel.              *)

App == [containers |-> containers, actions |-> actions, state |-> state,
        selected_container |-> selected_container, logs |-> logs,
        log_position |-> log_position, search |-> search, exec_tx |-> exec_tx,
        exec_cmd |-> exec_cmd, last_cmd |-> last_cmd]

\* App::new
NewApp == [containers |-> <<>>, actions |-> get_actions(Monitoring),
           state |-> Monitoring, selected_container |-> None, logs |-> <<>>,
           log_position |-> 0, search |-> None, exec_tx |-> None,
           exec_cmd |-> <<>>, last_cmd |-> None]

IoEvent(type, container) == [type |-> type, container |-> container]

\* what one call of an App operation did
Outcome(app, r, io, tx, chan) ==
    [app |-> app, ret |-> r, io |-> io, tx |-> tx, new_channel |-> chan]
Continue(app) == Outcome(app, "Continue", <<>>, <<>>, FALSE)

\* self.state = ...; self.actions = self.state.get_actions(): building the
\* registry panics when two of its actions share a key
\* a change of mode that leaves the registry as it is
set_state_only(app, st) == [app EXCEPT !.state = st]

set_state(app, st) ==
    [app EXCEPT !.state = st,
                !.actions = IF conflicts(get_actions(st)) = {}
                            THEN get_actions(st) ELSE <<"panic">>]

index_of(cs, id) ==
    LET hits == {i \in DOMAIN cs : cs[i].id = id}
    IN IF hits = {} THEN None ELSE Some(Min(hits) - 1)

\* Vec::get(index).map(|c| c.id.clone())
id_at(cs, index) == IF index + 1 \in DOMAIN cs THEN Some(cs[index + 1].id) ELSE None

\* a Next that goes from the last entry back to the first
next_wraps(app) ==
    LET cs == app.containers
        p == IF is_some(app.selected_container)
             THEN index_of(cs, unwrap(app.selected_container)) ELSE None
        index == IF is_some(p) /\ unwrap(p) + 1 < Len(cs) THEN unwrap(p) + 1 ELSE 0
    IN [app EXCEPT !.selected_container = id_at(cs, index)]

\* App::next
next(app) ==
    LET cs == app.containers
        index == IF is_some(app.selected_container)
                 THEN LET p == index_of(cs, unwrap(app.selected_container))
                          idx == IF is_some(p) THEN unwrap(p) ELSE 0
                      IN IF idx + 1 >= Len(cs) THEN idx ELSE idx + 1
                 ELSE 0
    IN [app EXCEPT !.selected_container = id_at(cs, index)]

\* App::previous
previous(app) ==
    LET cs == app.containers
        index == IF is_some(app.selected_container)
                 THEN LET p == index_of(cs, unwrap(app.selected_container))
                          idx == IF is_some(p) THEN unwrap(p) ELSE 0
                      IN IF idx = 0 THEN idx ELSE idx - 1
                 ELSE 0
    IN [app EXCEPT !.selected_container = id_at(cs, index)]

\* a StopContainer arm that dispatches without looking at the selection
stop_unguarded(app) ==
    Outcome(app, "Continue", <<IoEvent("StopContainer", "")>>, <<>>, FALSE)

\* Action::StopContainer of the container list
stop_selected(app) ==
    IF is_none(app.selected_container) THEN Continue(app)
    ELSE Outcome(app, "Continue",
                 <<IoEvent("StopContainer", unwrap(app.selected_container))>>,
                 <<>>, FALSE)

\* App::do_state_monitoring_actions
do_state_monitoring_actions(app, action) ==
    CASE action = "Quit" -> Outcome(app, "Exit", <<>>, <<>>, FALSE)
      [] action = "ShowLogs" ->
            IF is_none(app.selected_container) THEN Continue(app)
            ELSE Outcome(set_state(app, Logging(unwrap(app.selected_container))),
                         "Continue",
                         <<IoEvent("ShowLogs", unwrap(app.selected_container))>>,
                         <<>>, FALSE)
      [] action = "ExecCommands" ->
            IF is_none(app.selected_container) THEN Continue(app)
            ELSE Outcome([set_state(app, ExecCommand(unwrap(app.selected_container)))
                             EXCEPT !.exec_cmd = <<>>, !.exec_tx = Some("tx")],
                         "Continue",
                         <<IoEvent("StartExecSession", unwrap(app.selected_container))>>,
                         <<>>, TRUE)
      [] action = "Next" -> Continue(next(app))
      [] action = "Previous" -> Continue(previous(app))
      [] action = "StopContainer" -> stop_selected(app)
      [] action = "PauseContainer" ->
            IF is_none(app.selected_container) THEN Continue(app)
            ELSE Outcome(app, "Continue",
                         <<IoEvent("PauseContainer", unwrap(app.selected_container))>>,
                         <<>>, FALSE)
      [] OTHER -> Continue(app)

\* char::to_lowercase over the model's alphabet
lower(c) == CASE c = "E" -> "e" [] c = "R" -> "r" [] c = "O" -> "o" [] OTHER -> c
\* a comparison that keeps the case of the letters
keep_case(s) == s
\* str::to_lowercase
to_lowercase(s) == [i \in DOMAIN s |-> lower(s[i])]
\* str::contains
str_contains(hay, needle) ==
    \E i \in 0..(Len(hay) - Len(needle)) : SubSeq(hay, i + 1, i + Len(needle)) = needle

\* logs.iter().rev().skip(n).position(pred): the index, counted from the
\* first line not skipped, of the first line (newest first) that has the needle
RECURSIVE rev_skip_position(_, _, _, _)
rev_skip_position(lines, needle, n, i) ==
    IF n + i >= Len(lines) THEN None
    ELSE IF str_contains(to_lowercase(lines[Len(lines) - (n + i)]), to_lowercase(needle))
         THEN Some(i)
         ELSE rev_skip_position(lines, needle, n, i + 1)

\* a ScrollDown that does not move
scroll_down_stuck(pos) == pos
\* Action::ScrollDown
scroll_down(pos) == IF pos > 0 THEN pos - 1 ELSE 0
\* a ScrollUp that does not look at the length of the buffer
scroll_up_unbounded(pos, len) == pos + 1
\* Action::ScrollUp
scroll_up(pos, len) == IF pos + 1 < len THEN pos + 1 ELSE pos
\* Action::Search with a needle
search_next(lines, needle, pos) ==
    LET line == rev_skip_position(lines, needle, pos + 1, 0)
    IN IF is_some(line) THEN pos + unwrap(line) + 1 ELSE pos
\* String::pop
pop(s) == IF Len(s) = 0 THEN s ELSE SubSeq(s, 1, Len(s) - 1)

\* a Quit that drops the view together with the search
clear_search_and_view(app) == [app EXCEPT !.search = None, !.logs = <<>>, !.log_position = 0]
\* Action::Quit of the log view while a search is active
clear_search(app) == [app EXCEPT !.search = None]
\* a Quit of the log view that opens the exec view of the container
logging_quit_to_exec(app) == set_state(app, ExecCommand(app.state.container))

\* Action::Quit of the log view, no search active
logging_quit(app) ==
    [set_state(app, Monitoring) EXCEPT !.logs = <<>>, !.log_position = 0]

\* App::do_state_logging_actions
do_state_logging_actions(app, action) ==
    CASE action = "Quit" ->
            IF is_some(app.search) THEN Continue(clear_search(app))
            ELSE Outcome(logging_quit(app), "Continue",
                         <<IoEvent("StartMonitoring", "")>>, <<>>, FALSE)
      [] action = "ScrollDown" ->
            Continue([app EXCEPT !.log_position = scroll_down(app.log_position)])
      [] action = "ScrollUp" ->
            Continue([app EXCEPT !.log_position =
                                    scroll_up(app.log_position, Len(app.logs))])
      [] action = "Search" ->
            IF is_some(app.search)
            THEN Continue([app EXCEPT !.log_position =
                              search_next(app.logs, unwrap(app.search), app.log_position)])
            ELSE Continue([app EXCEPT !.search = Some(<<>>)])
      [] action = "Remove" ->
            IF is_some(app.search)
            THEN Continue([app EXCEPT !.search = Some(pop(unwrap(app.search)))])
            ELSE Continue(app)
      [] OTHER -> Continue(app)

\* an echo that adds the command as a line of its own
echo_new_line(lines, cmd) == Append(lines, cmd)

\* the last line of the buffer with the command appended
echo_last(lines, cmd) ==
    IF Len(lines) = 0 THEN lines
    ELSE [lines EXCEPT ![Len(lines)] = lines[Len(lines)] \o cmd]

\* App::do_state_exec_command_actions
do_state_exec_command_actions(app, action) ==
    CASE action = "Quit" ->
            Outcome([set_state(app, Monitoring) EXCEPT !.logs = <<>>, !.log_position = 0],
                    "Continue", <<>>,
                    IF is_some(app.exec_tx) THEN <<EXIT \o <<NL>>>> ELSE <<>>, FALSE)
      [] action = "SendCMD" ->
            IF is_some(app.exec_tx)
            THEN LET cmd == app.exec_cmd \o <<NL>>
                 IN Outcome([app EXCEPT !.logs = echo_last(app.logs, cmd),
                                        !.last_cmd = Some(cmd),
                                        !.exec_cmd = <<>>],
                            "Continue", <<>>, <<cmd>>, FALSE)
            ELSE Continue(app)
      [] OTHER -> Continue(app)

\* App::do_action, the key looked up in the registry of the mode
dispatch_key(app, key) ==
    LET action == find(app.actions, key)
    IN IF is_some(action)
       THEN IF is_monitoring(app.state)
            THEN do_state_monitoring_actions(app, unwrap(action))
            ELSE IF is_logging(app.state)
            THEN do_state_logging_actions(app, unwrap(action))
            ELSE IF is_exec_command(app.state)
            THEN do_state_exec_command_actions(app, unwrap(action))
            ELSE Continue(app)
       ELSE Continue(app)

\* a do_action that looks every key up in the registry
dispatch_only(app, key) == dispatch_key(app, key)

\* App::do_action
do_action(app, key) ==
    IF is_some(app.search) /\ is_some(get_char(key))
    THEN Continue([app EXCEPT !.search =
                                 Some(unwrap(app.search) \o <<unwrap(get_char(key))>>)])
    ELSE IF is_exec_command(app.state) /\ is_some(get_char(key))
    THEN Continue([app EXCEPT !.exec_cmd = app.exec_cmd \o <<unwrap(get_char(key))>>])
    ELSE dispatch_key(app, key)

\* the action a key resolves to, "input" when the key is captured as typed text
resolved(app, key) ==
    IF (is_some(app.search) \/ is_exec_command(app.state)) /\ is_some(get_char(key))
    THEN "input"
    ELSE IF is_some(find(app.actions, key)) THEN unwrap(find(app.actions, key))
    ELSE "none"

----------------------------------------------------------------------------
(* impl ContainerManagement for App: app/mod.rs:326-361 *)

Container(id, name) == [id |-> id, name |-> name]

retain_not(cs, id) == SelectSeq(cs, LAMBDA c : c.id # id)

\* the list left in the order of its pushes
keep_order(cs) == cs

\* Vec::sort_by(|a, b| a.name.cmp(&b.name)): a stable sort
RECURSIVE sort_by_name(_)
sort_by_name(cs) ==
    IF Len(cs) = 0 THEN cs
    ELSE LET front == sort_by_name(SubSeq(cs, 1, Len(cs) - 1))
             c == cs[Len(cs)]
             k == Cardinality({i \in DOMAIN front : front[i].name <= c.name})
         IN SubSeq(front, 1, k) \o <<c>> \o SubSeq(front, k + 1, Len(front))

update_containers(app, new_container) ==
    [app EXCEPT !.containers =
        sort_by_name(Append(retain_not(app.containers, new_container.id), new_container))]

remove_container(app, id) ==
    [app EXCEPT !.containers = retain_not(app.containers, id)]

\* an append that moves the position of a view that follows the newest line
shifted_always(pos, n) == pos + n
\* the scroll position after n lines were appended
shifted(pos, n) == IF pos # 0 THEN pos + n ELSE pos

add_logs(app, lines) ==
    [app EXCEPT !.log_position = shifted(app.log_position, Len(lines)),
                !.logs = app.logs \o lines]

\* a comparison of the texts as they are
no_trim(s) == s
\* str::trim over the model's alphabet: whitespace is the newline
RECURSIVE trim(_)
trim(s) ==
    IF Len(s) = 0 THEN s
    ELSE IF s[1] = NL THEN trim(Tail(s))
    ELSE IF s[Len(s)] = NL THEN trim(SubSeq(s, 1, Len(s) - 1))
    ELSE s

\* an end of session that leaves the view as it is
tty_exit_keeps_view(app) == set_state(app, Monitoring)
\* App::add_tty_output, the output "exit"
tty_exit(app) == [set_state(app, Monitoring) EXCEPT !.logs = <<>>, !.log_position = 0]

add_tty_output(app, output) ==
    IF output = EXIT
    THEN tty_exit(app)
    ELSE IF is_exec_command(app.state)
    THEN IF is_some(app.last_cmd) /\ trim(output) = trim(unwrap(app.last_cmd))
         THEN [app EXCEPT !.last_cmd = None]
         ELSE [app EXCEPT !.logs = Append(app.logs, output)]
    ELSE app

----------------------------------------------------------------------------
(* The daemon, the tasks and the handler *)

\* the containers the daemon may list, and the name it reports for each
\* (names are ordered: a number stands for the name)
ContainerIds == {"A", "B"}
NameOf(id) == CASE id = "A" -> 2 [] id = "B" -> 1 [] OTHER -> 1

TaskIds == 1..MaxTasks

NoEvent == [type |-> "none", container |-> "", cur |-> FALSE]
\* an IoEvent in the channel; cur: a SessionObject whose receiver belongs to
\* the channel exec_tx sends on
Queued(ev, chan) == [type |-> ev.type, container |-> ev.container, cur |-> chan]

NoTask == [kind |-> "none", pc |-> "none", cancelled |-> FALSE, container |-> "",
           alive_container_ids |-> {}, to_remove |-> {}, todo |-> {},
           updated |-> {}, failed |-> {}, logs_vec |-> <<>>, cur |-> FALSE]

\* a task that still runs or waits (it has neither returned nor been dropped)
Live(t) == tasks[t].kind # "none" /\ tasks[t].pc \notin {"done", "panicked"}
Runs(t) == Live(t) /\ ~tasks[t].cancelled

\* the foreground loop has not ended: the process is up
Alive == ui.ret = "Continue"

Ids(cs) == {cs[i].id : i \in DOMAIN cs}

SetApp(app) ==
    /\ containers' = app.containers
    /\ actions' = app.actions
    /\ state' = app.state
    /\ selected_container' = app.selected_container
    /\ logs' = app.logs
    /\ log_position' = app.log_position
    /\ search' = app.search
    /\ exec_tx' = app.exec_tx
    /\ exec_cmd' = app.exec_cmd
    /\ last_cmd' = app.last_cmd

\* the receiver of the channel exec_tx sends on is dropped with its holder
DropRx(chan, holder_cur) == IF holder_cur THEN [chan EXCEPT !.rx = "closed"] ELSE chan

Started ==
    /\ containers = NewApp.containers
    /\ actions = NewApp.actions
    /\ state = NewApp.state
    /\ selected_container = NewApp.selected_container
    /\ logs = NewApp.logs
    /\ log_position = NewApp.log_position
    /\ search = NewApp.search
    /\ exec_tx = NewApp.exec_tx
    /\ exec_cmd = NewApp.exec_cmd
    /\ last_cmd = NewApp.last_cmd
    /\ ui = [mode |-> "none", action |-> "none", ret |-> "Continue"]
    /\ io_queue = <<Queued(IoEvent("StartMonitoring", ""), FALSE)>>
    /\ exec_chan = [rx |-> "none", q |-> <<>>]
    /\ handler = [pc |-> "idle", event |-> NoEvent, task |-> 0, reported |-> <<>>]
    /\ active_task = None
    /\ tasks = [t \in TaskIds |-> NoTask]
    /\ refresh = {}
    /\ daemon = {}

\* the program after main has set it up
Init == Started /\ arg = None /\ ret = None

\* one call of a function, on arguments of the set
InitCall(args) == Started /\ arg \in args /\ ret = None

\* the call returns
Returns(value) ==
    /\ ret' = value
    /\ UNCHANGED <<appvars, ui, io_queue, exec_chan, handler, active_task, tasks,
                   refresh, daemon, arg>>

----------------------------------------------------------------------------
(* The foreground loop: lib.rs:30-44.  The loop holds the App lock from the *)
(* draw to the end of do_action, so one key is one step.                    *)

DoAction(key, typed) ==
    /\ Alive
    /\ UNCHANGED <<arg, ret>>
    /\ \E o \in {do_action(App, key)} :
       LET dead == handler.pc = "dead"
           chan == IF o.new_channel THEN [rx |-> "open", q |-> <<>>] ELSE exec_chan
           old == [i \in DOMAIN io_queue |->
                      IF o.new_channel THEN [io_queue[i] EXCEPT !.cur = FALSE]
                      ELSE io_queue[i]]
           sent == [i \in DOMAIN o.io |-> Queued(o.io[i], o.new_channel)]
           panics == (o.tx # <<>> /\ chan.rx # "open") \/ o.app.actions = <<"panic">>
       IN /\ Len(o.app.exec_cmd) <= typed
          /\ \A i \in DOMAIN o.app.logs : Len(o.app.logs[i]) <= MaxLine
          /\ is_some(o.app.search) => Len(unwrap(o.app.search)) <= typed
          \* Sender::send waits while the channel is full
          /\ dead \/ Len(io_queue) + Len(o.io) <= MaxIoQueue
          /\ panics \/ Len(chan.q) + Len(o.tx) <= MaxExecChan
          /\ SetApp(o.app)
          /\ ui' = [mode |-> state.mode, action |-> resolved(App, key),
                    ret |-> IF panics THEN "Panic" ELSE o.ret]
          \* dispatch ignores the error of a send to a dropped receiver
          /\ io_queue' = IF dead THEN io_queue ELSE old \o sent
          /\ exec_chan' = IF panics THEN chan
                          ELSE IF dead /\ o.new_channel THEN [chan EXCEPT !.rx = "closed"]
                          ELSE [chan EXCEPT !.q = chan.q \o o.tx]
          /\ handler' = IF o.new_channel THEN [handler EXCEPT !.event.cur = FALSE]
                        ELSE handler
          /\ tasks' = IF o.new_channel
                      THEN [t \in TaskIds |-> [tasks[t] EXCEPT !.cur = FALSE]]
                      ELSE tasks
          /\ UNCHANGED <<active_task, refresh, daemon>>

----------------------------------------------------------------------------
(* IoAsyncHandler: io/handler.rs, run by the task of main.rs:35-40 *)

IsSwitch(ev) == ev.type \in {"StartMonitoring", "ShowLogs", "StartExecSession"}

FreeSlot == Min({t \in TaskIds : tasks[t].kind = "none"} \union {MaxTasks})

\* tokio::spawn of the task an event asks for, in its first await
Spawned(ev) ==
    CASE ev.type = "StartMonitoring" ->
            [NoTask EXCEPT !.kind = "mgmt", !.pc = "list"]
      [] ev.type = "ShowLogs" ->
            [NoTask EXCEPT !.kind = "logs", !.pc = "fetch", !.container = ev.container]
      [] ev.type = "StartExecSession" ->
            [NoTask EXCEPT !.kind = "exec", !.pc = "start", !.container = ev.container,
                           !.cur = ev.cur]

\* an abort that does not wait for the task to exit
AwaitedNoWait(t) == TRUE
\* abort_current_task returns as soon as the handle it took has a result
Awaited(t) == ~Live(t)

\* the result of task.await: Ok(()), or the JoinError of a cancelled or of a
\* panicked task
JoinResult(t) ==
    IF tasks[t].pc = "panicked" THEN "Err(panic)"
    ELSE IF tasks[t].cancelled THEN "Err(cancelled)"
    ELSE "Ok"

\* what abort_current_task reports of the result: both arms of its match
\* return, and handle_io_event sees Ok(()) from every start_* method
abort_current_task(join) ==
    CASE join = "Ok" -> <<>>
      [] OTHER -> <<>>

\* handle_io_event taking the next event: the start_* methods take the
\* active handle and abort it; without one they spawn at once
HandleSwitch ==
    /\ Alive
    /\ UNCHANGED <<arg, ret>>
    /\ handler.pc = "idle"
    /\ io_queue # <<>>
    /\ IsSwitch(Head(io_queue))
    /\ io_queue' = Tail(io_queue)
    /\ IF is_some(active_task)
       THEN /\ tasks' = [tasks EXCEPT ![unwrap(active_task)].cancelled = TRUE]
            /\ active_task' = None
            /\ handler' = [pc |-> "abort", event |-> Head(io_queue),
                           task |-> unwrap(active_task),
                           reported |-> handler.reported]
       ELSE /\ tasks' = [tasks EXCEPT ![FreeSlot] = Spawned(Head(io_queue))]
            /\ active_task' = Some(FreeSlot)
            /\ UNCHANGED handler
    /\ UNCHANGED <<appvars, ui, exec_chan, refresh, daemon>>

\* task.await returned: the handle is dropped and the new task spawned
SwitchDone ==
    /\ Alive
    /\ UNCHANGED <<arg, ret>>
    /\ handler.pc = "abort"
    /\ Awaited(handler.task)
    /\ LET freed == IF Live(handler.task) THEN tasks
                    ELSE [tasks EXCEPT ![handler.task] = NoTask]
           slot == Min({t \in TaskIds : freed[t].kind = "none"})
       IN /\ tasks' = [freed EXCEPT ![slot] = Spawned(handler.event)]
          /\ active_task' = Some(slot)
    /\ handler' = [pc |-> "idle", event |-> NoEvent, task |-> 0,
                   reported |-> handler.reported
                                  \o abort_current_task(JoinResult(handler.task))]
    /\ UNCHANGED <<appvars, ui, io_queue, exec_chan, refresh, daemon>>

\* stop_container / pause_container: the handler awaits the daemon calls
HandleCall ==
    /\ Alive
    /\ UNCHANGED <<arg, ret>>
    /\ handler.pc = "idle"
    /\ io_queue # <<>>
    /\ ~IsSwitch(Head(io_queue))
    /\ io_queue' = Tail(io_queue)
    /\ handler' = [pc |-> "call", event |-> Head(io_queue), task |-> 0,
                   reported |-> handler.reported]
    /\ UNCHANGED <<appvars, ui, exec_chan, active_task, tasks, refresh, daemon>>

\* the daemon calls returned: inspect failed or the status asked for nothing
\* (logged), or a stop or forced removal took effect
CallReturns ==
    /\ Alive
    /\ UNCHANGED <<arg, ret>>
    /\ handler.pc = "call"
    /\ handler' = [pc |-> "idle", event |-> NoEvent, task |-> 0,
                   reported |-> handler.reported]
    /\ \/ UNCHANGED daemon
       \/ /\ handler.event.type = "StopContainer"
          /\ daemon' = daemon \ {handler.event.container}
    /\ UNCHANGED <<appvars, ui, io_queue, exec_chan, active_task, tasks, refresh>>

\* the mutating daemon call returned an error: .await.unwrap() panics, the
\* handler task ends and the receiver of the IO channel is dropped with
\* every event still in it
CallPanics ==
    /\ Alive
    /\ UNCHANGED <<arg, ret>>
    /\ handler.pc = "call"
    /\ handler' = [pc |-> "dead", event |-> NoEvent, task |-> 0,
                   reported |-> handler.reported]
    /\ io_queue' = <<>>
    /\ exec_chan' = DropRx(exec_chan, \E i \in DOMAIN io_queue : io_queue[i].cur)
    /\ UNCHANGED <<appvars, ui, active_task, tasks, refresh, daemon>>

\* the runtime drops a cancelled task at its await point; the JoinHandles of
\* the refresh tasks it spawned are dropped with it, which detaches them
TaskDropped(t) ==
    /\ Alive
    /\ UNCHANGED <<arg, ret>>
    /\ Live(t)
    /\ tasks[t].cancelled
    /\ tasks' = [tasks EXCEPT ![t].pc = "done"]
    /\ refresh' = {[r EXCEPT !.parent = IF r.parent = t THEN 0 ELSE r.parent] : r \in refresh}
    /\ exec_chan' = DropRx(exec_chan, tasks[t].kind = "exec" /\ tasks[t].cur)
    /\ UNCHANGED <<appvars, ui, io_queue, handler, active_task, daemon>>

----------------------------------------------------------------------------
(* start_management_process and update_container: docker.rs:19-138 *)

Mgmt(t) == Runs(t) /\ tasks[t].kind = "mgmt"

\* the refresh tasks a cycle spawns, one per listed container
\* refresh tasks for the containers listed and for those just removed
SpawnedForKnown(t, listed) ==
    {[id |-> id, name |-> NameOf(id), parent |-> t] :
        id \in listed \union tasks[t].to_remove}

SpawnedFor(t, listed) == {[id |-> id, name |-> NameOf(id), parent |-> t] : id \in listed}

\* list_containers returned: the ids to remove are computed; with none to
\* remove the refresh tasks are spawned in the same poll
MgmtListed(t) ==
    /\ Alive
    /\ UNCHANGED <<arg, ret>>
    /\ Mgmt(t)
    /\ tasks[t].pc \in {"list", "sleep"}
    /\ LET container_ids == daemon
           contaienrs_to_remove == tasks[t].alive_container_ids \ container_ids
       IN IF contaienrs_to_remove = {}
          THEN /\ tasks' = [tasks EXCEPT ![t].pc = "join",
                                         ![t].alive_container_ids = container_ids,
                                         ![t].to_remove = {}, ![t].todo = {},
                                         ![t].updated = {}]
               /\ refresh' = refresh \union SpawnedFor(t, container_ids)
          ELSE /\ tasks' = [tasks EXCEPT ![t].pc = "remove",
                                         ![t].alive_container_ids = container_ids,
                                         ![t].to_remove = contaienrs_to_remove,
                                         ![t].todo = contaienrs_to_remove,
                                         ![t].updated = {}]
               /\ UNCHANGED refresh
    /\ UNCHANGED <<appvars, ui, io_queue, exec_chan, handler, active_task, daemon>>

\* list_containers returned an error: .await.unwrap() panics
MgmtListPanics(t) ==
    /\ Alive
    /\ UNCHANGED <<arg, ret>>
    /\ Mgmt(t)
    /\ tasks[t].pc \in {"list", "sleep"}
    /\ tasks' = [tasks EXCEPT ![t].pc = "panicked"]
    /\ UNCHANGED <<appvars, ui, io_queue, exec_chan, handler, active_task, refresh, daemon>>

\* manager.lock().await.remove_container(&container_id), one id per lock;
\* after the last one the refresh tasks are spawned
MgmtRemoves(t, id) ==
    /\ Alive
    /\ UNCHANGED <<arg, ret>>
    /\ Mgmt(t)
    /\ tasks[t].pc = "remove"
    /\ id \in tasks[t].todo
    /\ SetApp(remove_container(App, id))
    /\ IF tasks[t].todo = {id}
       THEN /\ tasks' = [tasks EXCEPT ![t].pc = "join", ![t].todo = {}]
            /\ refresh' = refresh \union SpawnedFor(t, tasks[t].alive_container_ids)
       ELSE /\ tasks' = [tasks EXCEPT ![t].todo = tasks[t].todo \ {id}]
            /\ UNCHANGED refresh
    /\ UNCHANGED <<ui, io_queue, exec_chan, handler, active_task, daemon>>

\* update_container: the stats sample arrived and the container is upserted
RefreshUpdates(r) ==
    /\ Alive
    /\ UNCHANGED <<arg, ret>>
    /\ r \in refresh
    /\ SetApp(update_containers(App, Container(r.id, r.name)))
    /\ refresh' = refresh \ {r}
    /\ tasks' = IF r.parent = 0 THEN tasks
                ELSE [tasks EXCEPT ![r.parent].updated = tasks[r.parent].updated \union {r.id}]
    /\ UNCHANGED <<ui, io_queue, exec_chan, handler, active_task, daemon>>

\* update_container: no stats sample, the refresh returns without an upsert
RefreshFails(r) ==
    /\ Alive
    /\ UNCHANGED <<arg, ret>>
    /\ r \in refresh
    /\ refresh' = refresh \ {r}
    /\ UNCHANGED <<appvars, ui, io_queue, exec_chan, handler, active_task, tasks, daemon>>

\* every JoinHandle of the cycle was awaited; the cycle ends in its sleep
MgmtJoined(t) ==
    /\ Alive
    /\ UNCHANGED <<arg, ret>>
    /\ Mgmt(t)
    /\ tasks[t].pc = "join"
    /\ ~\E r \in refresh : r.parent = t
    /\ tasks[t].failed = {}
    /\ tasks' = [tasks EXCEPT ![t].pc = "sleep"]
    /\ UNCHANGED <<appvars, ui, io_queue, exec_chan, handler, active_task, refresh, daemon>>

\* update_container panics (an unwrap of a missing field of the summary, or
\* the subtraction of docker.rs:106): its JoinHandle holds the panic
RefreshPanics(r) ==
    /\ Alive
    /\ UNCHANGED <<arg, ret>>
    /\ r \in refresh
    /\ r.parent # 0
    /\ refresh' = refresh \ {r}
    /\ tasks' = [tasks EXCEPT ![r.parent].failed = tasks[r.parent].failed \union {r.id}]
    /\ UNCHANGED <<appvars, ui, io_queue, exec_chan, handler, active_task, daemon>>

\* the order in which the daemon lists the containers, which is the order
\* of the spawns and of the awaits
ListOrder == <<"A", "B">>
Position(id) == CHOOSE i \in DOMAIN ListOrder : ListOrder[i] = id

\* `for t in tasks { match t.await .. }` has reached the handle of id: the
\* handles before it were awaited to their end
resumes_at(t, id) ==
    ~\E r \in refresh : r.parent = t /\ Position(r.id) < Position(id)

\* the loop awaits a handle that holds a panic: panic::resume_unwind ends the
\* reconciliation task, and the handles not yet awaited are dropped
MgmtJoinPanics(t) ==
    /\ Alive
    /\ UNCHANGED <<arg, ret>>
    /\ Mgmt(t)
    /\ tasks[t].pc = "join"
    /\ \E id \in tasks[t].failed :
          /\ \A other \in tasks[t].failed : Position(id) <= Position(other)
          /\ resumes_at(t, id)
    /\ tasks' = [tasks EXCEPT ![t].pc = "panicked"]
    /\ refresh' = {[r EXCEPT !.parent = IF r.parent = t THEN 0 ELSE r.parent] : r \in refresh}
    /\ UNCHANGED <<appvars, ui, io_queue, exec_chan, handler, active_task, daemon>>

----------------------------------------------------------------------------
(* start_monitoring_logs: docker.rs:140-167 *)

LogTail(t) == Runs(t) /\ tasks[t].kind = "logs"

\* the log stream ended: logs_vec holds the chunks fetched
LogsFetched(t, chunks, max) ==
    /\ Alive
    /\ UNCHANGED <<arg, ret>>
    /\ LogTail(t)
    /\ tasks[t].pc = "fetch"
    /\ Len(logs) + Len(chunks) <= max
    /\ tasks' = [tasks EXCEPT ![t].pc = "lock", ![t].logs_vec = chunks]
    /\ UNCHANGED <<appvars, ui, io_queue, exec_chan, handler, active_task, refresh, daemon>>

\* manager.lock().await.add_logs(logs_vec)
LogsAdded(t) ==
    /\ Alive
    /\ UNCHANGED <<arg, ret>>
    /\ LogTail(t)
    /\ tasks[t].pc = "lock"
    /\ SetApp(add_logs(App, tasks[t].logs_vec))
    /\ tasks' = [tasks EXCEPT ![t].pc = "sleep", ![t].logs_vec = <<>>]
    /\ UNCHANGED <<ui, io_queue, exec_chan, handler, active_task, refresh, daemon>>

\* the sleep ended and the next fetch is in flight
LogsWakes(t) ==
    /\ Alive
    /\ UNCHANGED <<arg, ret>>
    /\ LogTail(t)
    /\ tasks[t].pc = "sleep"
    /\ tasks' = [tasks EXCEPT ![t].pc = "fetch"]
    /\ UNCHANGED <<appvars, ui, io_queue, exec_chan, handler, active_task, refresh, daemon>>

----------------------------------------------------------------------------
(* enter_tty(session, app): the exec task.  Its source is not part of the   *)
(* files at hand; it is modelled from the description of the exec session.  *)

ExecTask(t) == Runs(t) /\ tasks[t].kind = "exec"

\* create_exec and start_exec returned: the session is attached
ExecAttached(t) ==
    /\ Alive
    /\ UNCHANGED <<arg, ret>>
    /\ ExecTask(t)
    /\ tasks[t].pc = "start"
    /\ tasks' = [tasks EXCEPT ![t].pc = "attached"]
    /\ UNCHANGED <<appvars, ui, io_queue, exec_chan, handler, active_task, refresh, daemon>>

\* a command received on the session's channel is written to the remote shell
ExecForwards(t) ==
    /\ Alive
    /\ UNCHANGED <<arg, ret>>
    /\ ExecTask(t)
    /\ tasks[t].pc = "attached"
    /\ tasks[t].cur
    /\ exec_chan.q # <<>>
    /\ exec_chan' = [exec_chan EXCEPT !.q = Tail(exec_chan.q)]
    /\ UNCHANGED <<appvars, ui, io_queue, handler, active_task, tasks, refresh, daemon>>

\* output of the remote shell is handed to add_tty_output
ExecOutput(t, output, max) ==
    /\ Alive
    /\ UNCHANGED <<arg, ret>>
    /\ ExecTask(t)
    /\ tasks[t].pc = "attached"
    /\ Len(logs) < max
    /\ SetApp(add_tty_output(App, output))
    /\ UNCHANGED <<ui, io_queue, exec_chan, handler, active_task, tasks, refresh, daemon>>

\* the stream of the remote shell ended (or the session could not be
\* created): the task returns and its receiver is dropped
ExecEnds(t) ==
    /\ Alive
    /\ UNCHANGED <<arg, ret>>
    /\ ExecTask(t)
    /\ tasks' = [tasks EXCEPT ![t].pc = "done"]
    /\ exec_chan' = DropRx(exec_chan, tasks[t].cur)
    /\ UNCHANGED <<appvars, ui, io_queue, handler, active_task, refresh, daemon>>

----------------------------------------------------------------------------
(* The daemon's own changes *)

DaemonCreates(id) ==
    /\ Alive
    /\ UNCHANGED <<arg, ret>>
    /\ id \notin daemon
    /\ daemon' = daemon \union {id}
    /\ UNCHANGED <<appvars, ui, io_queue, exec_chan, handler, active_task, tasks, refresh>>

DaemonRemoves(id) ==
    /\ Alive
    /\ UNCHANGED <<arg, ret>>
    /\ id \in daemon
    /\ daemon' = daemon \ {id}
    /\ UNCHANGED <<appvars, ui, io_queue, exec_chan, handler, active_task, tasks, refresh>>

----------------------------------------------------------------------------
(* Specifications.  Each one lets the whole program run on the inputs of    *)
(* one part of it.                                                          *)

\* the steps of the handler and of the runtime
Supervisor ==
    \/ HandleSwitch
    \/ SwitchDone
    \/ \E t \in TaskIds : TaskDropped(t)

\* the steps of a reconciliation cycle
Reconciliation ==
    \/ \E t \in TaskIds : MgmtListed(t)
    \/ \E t \in TaskIds, id \in ContainerIds : MgmtRemoves(t, id)
    \/ \E r \in refresh : RefreshUpdates(r)
    \/ \E r \in refresh : RefreshFails(r)
    \/ \E t \in TaskIds : MgmtJoined(t)

\* Reconciliation against a daemon whose containers come and go, while the
\* user moves between the container list and the log view
KeysRecon == {Enter, Esc, Down}

NextRecon ==
    \/ \E key \in KeysRecon : DoAction(key, 0)
    \/ Supervisor
    \/ Reconciliation
    \/ \E id \in ContainerIds : DaemonCreates(id)
    \/ \E id \in ContainerIds : DaemonRemoves(id)

SpecRecon == Init /\ [][NextRecon]_vars

\* The supervisor switching between the three background tasks for one
\* container, with stop requests going to the daemon
KeysSup == {Char("l"), Char("e"), Char("s"), Esc, Down}

NextSup ==
    \/ \E key \in KeysSup : DoAction(key, 0)
    \/ Supervisor
    \/ HandleCall
    \/ CallReturns
    \/ CallPanics
    \/ Reconciliation
    \/ \E t \in TaskIds : MgmtListPanics(t)
    \/ \E t \in TaskIds : LogsFetched(t, <<<<"o">>>>, MaxLogs)
    \/ \E t \in TaskIds : LogsAdded(t)
    \/ \E t \in TaskIds : LogsWakes(t)
    \/ \E t \in TaskIds : ExecAttached(t)
    \/ \E t \in TaskIds : ExecForwards(t)
    \/ \E t \in TaskIds : ExecOutput(t, EXIT, MaxLogs)
    \/ \E t \in TaskIds : ExecEnds(t)
    \/ DaemonCreates("A")

SpecSup == Init /\ [][NextSup]_vars

\* The runtime polls every task that is ready: the handler receives the
\* next event and resumes when the task it awaits is gone, a cancelled task
\* is dropped, and a daemon call of the handler ends with a result or an
\* error (the client's request timeout).
FairSup ==
    /\ SpecSup
    /\ WF_vars(HandleSwitch)
    /\ WF_vars(SwitchDone)
    /\ WF_vars(HandleCall)
    /\ WF_vars(CallReturns \/ CallPanics)
    /\ WF_vars(\E t \in TaskIds : TaskDropped(t))

\* The log view of one container: scrolling and searching while the log-tail
\* task appends
KeysLog == {Enter, Esc, Up, Down, Backspace, Char("o"), Char("R")}
LineHit == <<"O", "r">>
LineMiss == <<"x">>
ChunksLog == {<<LineHit>>, <<LineMiss>>, <<LineMiss, LineHit>>}
\* longest log buffer in the views
MaxView == 3
\* longest text typed in the views
MaxNeedle == 1

NextLog ==
    \/ \E key \in KeysLog : DoAction(key, MaxNeedle)
    \/ Supervisor
    \/ \E t \in TaskIds : MgmtListed(t)
    \/ \E r \in refresh : RefreshUpdates(r)
    \/ \E t \in TaskIds : MgmtJoined(t)
    \/ \E t \in TaskIds, chunks \in ChunksLog : LogsFetched(t, chunks, MaxView)
    \/ \E t \in TaskIds : LogsAdded(t)
    \/ \E t \in TaskIds : LogsWakes(t)
    \/ DaemonCreates("A")

SpecLog == Init /\ [][NextLog]_vars

\* The log view and the exec view together: every operation that moves the
\* scroll position or changes the length of the buffer
KeysView == {Enter, Esc, Up, Down, Char("e")}
ChunksView == {<<LineMiss>>}

NextView ==
    \/ \E key \in KeysView : DoAction(key, 0)
    \/ Supervisor
    \/ \E t \in TaskIds : MgmtListed(t)
    \/ \E r \in refresh : RefreshUpdates(r)
    \/ \E t \in TaskIds : MgmtJoined(t)
    \/ \E t \in TaskIds, chunks \in ChunksView : LogsFetched(t, chunks, MaxView)
    \/ \E t \in TaskIds : LogsAdded(t)
    \/ \E t \in TaskIds : LogsWakes(t)
    \/ \E t \in TaskIds : ExecAttached(t)
    \/ \E t \in TaskIds : ExecForwards(t)
    \/ \E t \in TaskIds, output \in {EXIT, LineMiss} : ExecOutput(t, output, MaxView)
    \/ DaemonCreates("A")

SpecView == Init /\ [][NextView]_vars

\* The exec view of one container: the user types and sends commands, the
\* remote shell answers with echoes and other lines
KeysExec == {Char("e"), Enter, Esc, Down}
OutputsExec == {EXIT, <<"e">>, <<"i">>}

NextExec ==
    \/ \E key \in KeysExec : DoAction(key, MaxNeedle)
    \/ Supervisor
    \/ \E t \in TaskIds : MgmtListed(t)
    \/ \E r \in refresh : RefreshUpdates(r)
    \/ \E t \in TaskIds : MgmtJoined(t)
    \/ \E t \in TaskIds : ExecAttached(t)
    \/ \E t \in TaskIds : ExecForwards(t)
    \/ \E t \in TaskIds, output \in OutputsExec : ExecOutput(t, output, MaxLogs + 1)
    \/ \E t \in TaskIds : ExecEnds(t)
    \/ DaemonCreates("A")

SpecExec == Init /\ [][NextExec]_vars

\* The registry: one built from any list of actions, then asked for a key
MaxList == 3
RECURSIVE ListsOf(_, _)
ListsOf(S, n) ==
    IF n = 0 THEN {<<>>}
    ELSE ListsOf(S, n - 1) \union {Append(l, x) : l \in {m \in ListsOf(S, n - 1) : Len(m) = n - 1}, x \in S}
ActionLists == ListsOf(SeqToSet(ALL_ACTIONS), MaxList)

\* every key some action is bound to, and a character key bound to none
AllKeys ==
    {Char(c) : c \in {"q", "l", "e", "n", "p", "/", "s", "x"}}
        \union {Ctrl("c"), Esc, Enter, Up, Down, Left, Right, Backspace}

\* Actions::from(arg)
BuildRegistry ==
    /\ ret = None
    /\ Returns(Some([built |-> from(arg), key |-> None, found |-> None]))

\* registry.find(key) on a registry that was built
FindKey(key) ==
    /\ is_some(ret)
    /\ ~unwrap(ret).built.panic
    /\ is_none(unwrap(ret).key)
    /\ Returns(Some([unwrap(ret) EXCEPT !.key = Some(key),
                                        !.found = find(unwrap(ret).built.registry, key)]))

NextRegistry ==
    \/ BuildRegistry
    \/ \E key \in AllKeys : FindKey(key)

SpecRegistry == InitCall(ActionLists) /\ [][NextRegistry]_vars

----------------------------------------------------------------------------
(* Reconciliation: C1, C2, C4 *)

\* a reconciliation task whose cycle is complete: every refresh joined
CycleComplete(t) == Mgmt(t) /\ tasks[t].pc = "sleep"

\* C1: at the end of a reconciliation cycle with previously-known ids P and
\* listing L, no id of P \ L is in the collection and every id of L whose
\* refresh succeeded is in it, whatever the order the refreshes completed in.
C1_CycleOutcome ==
    \A t \in TaskIds :
        CycleComplete(t) =>
            /\ tasks[t].to_remove \intersect Ids(containers) = {}
            /\ tasks[t].updated \subseteq Ids(containers)

\* C2: after any completed reconciliation cycle the collection holds no id
\* that is absent from that cycle's listing.
C2_NoStaleAfterCycle ==
    \A t \in TaskIds :
        CycleComplete(t) => Ids(containers) \subseteq tasks[t].alive_container_ids

\* C4: once every switch is complete (the handler is idle), a refresh task
\* left behind by a cancelled reconciliation task changes the collection no
\* more.
C4_NoUpsertAfterSwitch ==
    [][(handler.pc = "idle" /\ \E r \in refresh : r.parent = 0 /\ refresh' = refresh \ {r})
          => containers' = containers]_vars

----------------------------------------------------------------------------
(* The supervisor: C3, C5 *)

LiveTasks == {t \in TaskIds : Live(t)}

\* C3: the supervisor holds at most one supervised task at any time: while a
\* switch is in progress the only task alive is the cancelled one it waits
\* for, and otherwise the only task alive is the one of the active handle.
C3_OneSupervisedTask ==
    /\ Cardinality(LiveTasks) <= 1
    /\ handler.pc = "abort" =>
          /\ is_none(active_task)
          /\ \A t \in LiveTasks : t = handler.task /\ tasks[t].cancelled
    /\ handler.pc # "abort" =>
          \A t \in LiveTasks : active_task = Some(t) /\ ~tasks[t].cancelled

\* a switch waits for a task cancelled in the middle of a daemon call, with
\* the next event already in the channel
C3_Witness ==
    /\ handler.pc = "abort"
    /\ Live(handler.task)
    /\ tasks[handler.task].pc \in {"list", "fetch", "start"}
    /\ io_queue # <<>>

\* the kind of the task the supervisor holds
ActiveKind == IF is_some(active_task) THEN tasks[unwrap(active_task)].kind ELSE "none"
KindOf(mode) == CASE mode = "Monitoring" -> "mgmt"
                  [] mode = "Logging" -> "logs"
                  [] mode = "ExecCommand" -> "exec"

\* C5: whenever the IO channel is empty and the handler idle (after the
\* first start), the task the supervisor holds is the one of the mode.
C5_TaskOfMode ==
    (io_queue = <<>> /\ handler.pc = "idle" /\ is_some(active_task))
        => ActiveKind = KindOf(state.mode)

----------------------------------------------------------------------------
(* Leaving the log view: C10 *)

\* the last key was Quit in the log view and it left the view
LeftLogView == ui.mode = "Logging" /\ ui.action = "Quit" /\ is_monitoring(state)

\* the handle the supervisor holds is that of a reconciliation task it spawned
Restarted == is_some(active_task) /\ tasks[unwrap(active_task)].kind = "mgmt"

----------------------------------------------------------------------------
(* The log view: C6, C7, C8 *)

\* C6: in every reachable state the scroll position is at least 0 and at most
\* the length of the log buffer, whatever the interleaving of ScrollUp,
\* ScrollDown, Search, log appends, exec output and the clears of a mode change
C6_PositionInBuffer == 0 <= log_position /\ log_position <= Len(logs)

\* the view was scrolled to the oldest line of a buffer of several lines
C6_Witness == is_logging(state) /\ log_position > 0 /\ log_position + 1 = Len(logs)

\* the step of the log task that hands its chunk to add_logs
Appends(t) == LogTail(t) /\ tasks[t].pc = "lock" /\ tasks'[t].pc = "sleep"

\* C7: add_logs of n lines moves a scroll position p > 0 to p + n and leaves
\* p = 0 at 0; the buffer after it is the buffer before it followed by the n
\* lines in their order
C7_AddLogsKeepsView ==
    [][\A t \in TaskIds : Appends(t) =>
          /\ logs' = logs \o tasks[t].logs_vec
          /\ log_position > 0 => log_position' = log_position + Len(tasks[t].logs_vec)
          /\ log_position = 0 => log_position' = 0]_vars

\* a chunk was appended under a view that was scrolled back
C7_Witness ==
    \E t \in TaskIds : LogTail(t) /\ tasks[t].pc = "sleep" /\ log_position >= 2

\* the line at reverse offset q (0 is the newest line) has the needle, case
\* put aside
HasNeedle(q, needle) ==
    LET line == logs[Len(logs) - q]
    IN \E i \in 0..(Len(line) - Len(needle)) :
          \A j \in 1..Len(needle) : lower(line[i + j]) = lower(needle[j])

\* the reverse offsets past the position whose line has the needle
Hits(needle) == {q \in (log_position + 1)..(Len(logs) - 1) : HasNeedle(q, needle)}

\* C8: with a needle active, Search sets the position to the smallest reverse
\* offset past the current one whose line contains the needle as a
\* case-insensitive substring, leaves it where it is when there is none, and
\* changes neither the buffer nor the needle
C8_SearchFindsNext ==
    (is_logging(state) /\ is_some(search)) =>
        \E o \in {do_action(App, Enter)} :
            /\ o.app.log_position = IF Hits(unwrap(search)) = {} THEN log_position
                                    ELSE Min(Hits(unwrap(search)))
            /\ o.app.logs = logs
            /\ o.app.search = search
            /\ o.ret = "Continue"

\* a search for "R" stopped the view on the line "Or", an older line of the buffer
C8_Witness ==
    /\ ui.mode = "Logging" /\ ui.action = "Search"
    /\ search = Some(<<"R">>)
    /\ log_position > 0
    /\ logs[Len(logs) - log_position] = LineHit

----------------------------------------------------------------------------
(* The container list without a selection: C9 *)

NeedSelection == {"ShowLogs", "ExecCommands", "StopContainer", "PauseContainer"}

\* C9: in Monitoring mode with no container selected ShowLogs, ExecCommands,
\* StopContainer and PauseContainer leave every field of the App as it is,
\* dispatch no IO event, send nothing to an exec session and return Continue
C9_NoSelectionNoOp ==
    (is_monitoring(state) /\ is_none(selected_container)) =>
        /\ \A a \in NeedSelection :
              do_state_monitoring_actions(App, a) =
                  Outcome(App, "Continue", <<>>, <<>>, FALSE)
        /\ \A key \in {Char("l"), Enter, Char("e"), Char("s")} :
              do_action(App, key) = Outcome(App, "Continue", <<>>, <<>>, FALSE)

\* a key of one of these actions was pressed over a list that has containers
\* and no selection
C9_Witness ==
    /\ ui.mode = "Monitoring" /\ ui.action \in NeedSelection
    /\ is_monitoring(state) /\ is_none(selected_container)
    /\ containers # <<>>

----------------------------------------------------------------------------
(* Quit while a search is active: C11 *)

\* the step that ends a search and stays in the log view
SearchCleared == is_logging(state) /\ is_some(search) /\ is_logging(state') /\ search' = None

\* C11: in the log view with a search active Quit clears the search and
\* nothing else: the mode stays Logging, the buffer and the position are as
\* they were, the call returns Continue with no IO event dispatched and
\* nothing sent to an exec session, and the step leaves the IO channel, the
\* handler and the background tasks as they are; Quit on the state it
\* leaves (no search) is the one that returns to Monitoring
C11_QuitClearsOnlySearch ==
    /\ []((is_logging(state) /\ is_some(search)) =>
            \E o \in {do_action(App, Esc)} :
                /\ o = Outcome([App EXCEPT !.search = None], "Continue", <<>>, <<>>, FALSE)
                /\ is_monitoring(do_action(o.app, Esc).app.state))
    /\ [][SearchCleared =>
            /\ state' = state /\ actions' = actions
            /\ logs' = logs /\ log_position' = log_position
            /\ io_queue' = io_queue /\ handler' = handler
            /\ active_task' = active_task /\ tasks' = tasks]_vars

\* Quit was the last key, pressed in the log view, and the view is still
\* open on a buffer that was scrolled back: the key ended a search
C11_Witness ==
    /\ ui.mode = "Logging" /\ ui.action = "Quit"
    /\ is_logging(state) /\ is_none(search)
    /\ log_position > 0

----------------------------------------------------------------------------
(* Leaving the exec view: C12 *)

\* the step of Quit pressed in the exec view
ExecQuit == is_exec_command(state) /\ ui'.action = "Quit" /\ is_monitoring(state')

\* C12: Quit in the exec view transmits "exit\n" on the exec channel before
\* the mode is Monitoring: in the state the key leaves, with the mode
\* Monitoring, "exit\n" is the last message put on the channel
C12_ExitSentBeforeSwitch ==
    [][ExecQuit => /\ exec_chan'.q # <<>>
                   /\ exec_chan'.q[Len(exec_chan'.q)] = EXIT \o <<NL>>]_vars

----------------------------------------------------------------------------
(* Echo suppression: C13 *)

\* the text without the whitespace at its ends
Strip(s) ==
    LET keep == {i \in DOMAIN s : s[i] # NL}
    IN IF keep = {} THEN <<>>
       ELSE SubSeq(s, Min(keep), CHOOSE i \in keep : \A j \in keep : j <= i)

\* the output is the echo of the last command sent
Echo(output) == is_some(last_cmd) /\ Strip(output) = Strip(unwrap(last_cmd))

\* what the exec view does with an inbound output: the echo of the last
\* command is discarded and the marker cleared, anything else is appended
EchoRule(output) ==
    \E r \in {add_tty_output(App, output)} :
        IF Echo(output) THEN r = [App EXCEPT !.last_cmd = None]
        ELSE r = [App EXCEPT !.logs = Append(logs, output)]

\* C13 as stated: in the exec view the first inbound output that equals the
\* last command sent, both trimmed, is discarded and the marker cleared, and
\* every other inbound output is appended to the buffer verbatim
C13_EveryOtherOutputAppended ==
    is_exec_command(state) => \A output \in OutputsExec : EchoRule(output)

\* "exit\n", the command whose echo is the text that ends the session
ExitCmd == EXIT \o <<NL>>

\* C13, amended: in the exec view every inbound output other than the literal
\* "exit" follows the rule (the echo of the last command is discarded once
\* and the marker cleared, anything else, a later identical line included,
\* is appended verbatim); the literal "exit" is never taken for an echo: it
\* ends the session even after "exit\n" was sent, and leaves the marker set
C13_EchoSuppressedOnce ==
    is_exec_command(state) =>
        /\ \A output \in OutputsExec \ {EXIT} : EchoRule(output)
        /\ \E r \in {add_tty_output([App EXCEPT !.last_cmd = Some(ExitCmd)], EXIT)} :
              is_monitoring(r.state) /\ r.last_cmd = Some(ExitCmd) /\ r.logs = <<>>

\* a command was sent, its echo was discarded (the marker is clear again)
\* and a later line with the same text is in the buffer
C13_Witness ==
    /\ is_exec_command(state) /\ ui.action = "SendCMD"
    /\ is_none(last_cmd)
    /\ logs # <<>> /\ logs[Len(logs)] = <<"e">>

----------------------------------------------------------------------------
(* The inbound "exit": C14 *)

\* the step in which the exec view is left without a key
SessionEnded == is_exec_command(state) /\ is_monitoring(state') /\ ui' = ui

\* C14: after an inbound exec output that is literally "exit" the mode is
\* Monitoring, the registry is the registry of Monitoring, the buffer is
\* empty and the position is 0
C14_ExitEndsSession ==
    /\ [](\E r \in {add_tty_output(App, EXIT)} :
              /\ r.state = Monitoring
              /\ r.actions = NewApp.actions
              /\ r.logs = <<>>
              /\ r.log_position = 0)
    /\ [][SessionEnded =>
              /\ actions' = NewApp.actions
              /\ logs' = <<>>
              /\ log_position' = 0]_vars

\* the last key opened the exec view of the selected container, and the mode
\* is Monitoring again with no further key: the session ended with "exit"
C14_Witness ==
    /\ ui.mode = "Monitoring" /\ ui.action = "ExecCommands"
    /\ is_some(selected_container)
    /\ is_monitoring(state)

----------------------------------------------------------------------------
(* Input capture: C15 *)

IsChar(key) == key[1] = "Char"

\* what the registry of the current mode makes of the key
ByRegistry(key) ==
    LET hit == {i \in DOMAIN actions : Contains(keys(actions[i]), key)}
    IN IF hit = {} THEN Outcome(App, "Continue", <<>>, <<>>, FALSE)
       ELSE IF is_monitoring(state) THEN do_state_monitoring_actions(App, actions[Min(hit)])
       ELSE IF is_logging(state) THEN do_state_logging_actions(App, actions[Min(hit)])
       ELSE do_state_exec_command_actions(App, actions[Min(hit)])

\* C15: while a search is active a character key is appended to the needle
\* and nothing else happens (no action, no mode change, no IO event);
\* otherwise, in ExecCommand mode, a character key is appended to the pending
\* command and nothing else happens; every other key does what the registry
\* of the current mode binds it to
C15_CaptureBeforeDispatch ==
    \A key \in AllKeys :
        IF is_some(search) /\ IsChar(key)
        THEN do_action(App, key) =
                Outcome([App EXCEPT !.search = Some(unwrap(search) \o <<key[2]>>)],
                        "Continue", <<>>, <<>>, FALSE)
        ELSE IF is_exec_command(state) /\ IsChar(key)
        THEN do_action(App, key) =
                Outcome([App EXCEPT !.exec_cmd = exec_cmd \o <<key[2]>>],
                        "Continue", <<>>, <<>>, FALSE)
        ELSE do_action(App, key) = ByRegistry(key)

\* the key 'e', which opens the exec view from the container list, was typed
\* into the needle of a search, after it had been typed into a command
C15_Witness ==
    /\ ui.mode = "Logging" /\ ui.action = "input"
    /\ is_logging(state) /\ search = Some(<<"e">>)
    /\ exec_cmd = <<"e">>

----------------------------------------------------------------------------
(* The registry of each mode: C16 *)

\* the mode table: the actions each mode enables
ModeTable(mode) ==
    CASE mode = "Monitoring" -> {"Quit", "ShowLogs", "ExecCommands", "Next", "Previous",
                                 "StopContainer", "PauseContainer"}
      [] mode = "Logging" -> {"Quit", "ScrollUp", "ScrollDown", "Search", "Remove"}
      [] mode = "ExecCommand" -> {"Quit", "SendCMD"}

\* C16: the registry of every mode holds exactly the actions of the mode
\* table, PauseContainer included for Monitoring, so that in Monitoring with
\* a container selected a key bound to PauseContainer dispatches a pause
\* request for that container
C16_RegistryIsModeTable ==
    /\ SeqToSet(actions) = ModeTable(state.mode)
    /\ (is_monitoring(state) /\ is_none(search) /\ is_some(selected_container)) =>
          \E key \in SeqToSet(keys("PauseContainer")) :
              do_action(App, key).io =
                  <<IoEvent("PauseContainer", unwrap(selected_container))>>

----------------------------------------------------------------------------
(* Building a registry: C17 *)

\* the positions of the list whose action has the key
Holders(key) == {i \in DOMAIN arg : Contains(keys(arg[i]), key)}

\* the keys more than one action of the list is bound to
Shared == {key \in AllKeys : Cardinality(Holders(key)) > 1}

\* C17: for every list of actions the construction fails if and only if
\* some key belongs to more than one action of the list; the failure message
\* has one clause for every such key and for no other, naming all the
\* actions of the list that have the key; without a shared key the registry
\* holds the actions given, in their order
C17_ConflictsFailConstruction ==
    is_some(ret) =>
        \E r \in {unwrap(ret).built} :
            /\ r.panic <=> Shared # {}
            /\ {e.key : e \in r.errors} = Shared
            /\ \A e \in r.errors :
                  /\ SeqToSet(e.actions) = {arg[i] : i \in Holders(e.key)}
                  /\ Len(e.actions) = Cardinality(Holders(e.key))
            /\ ~r.panic => r.registry = arg

\* a list with two keys shared, one of them by three actions, was refused
C17_Witness ==
    /\ is_some(ret) /\ unwrap(ret).built.panic
    /\ Cardinality(unwrap(ret).built.errors) = 2
    /\ \E e \in unwrap(ret).built.errors : Len(e.actions) = 3

----------------------------------------------------------------------------
(* Looking a key up: C18 *)

\* the positions of the registry whose action has the key
Bound(registry, key) == {i \in DOMAIN registry : Contains(keys(registry[i]), key)}

\* C18: on every registry that was built, and for every key, find returns
\* None when no action of the registry has the key, and otherwise the first
\* action in the order of construction that has it, which is the only one
C18_FindFirstBound ==
    (is_some(ret) /\ is_some(unwrap(ret).key)) =>
        \E r \in {unwrap(ret)} :
            \E hits \in {Bound(r.built.registry, unwrap(r.key))} :
                IF hits = {} THEN r.found = None
                ELSE /\ r.found = Some(r.built.registry[Min(hits)])
                     /\ Cardinality(hits) = 1

\* a key was found at the last of three actions, one that comes before the
\* other two in the enumeration of all actions
C18_Witness ==
    /\ is_some(ret) /\ is_some(unwrap(ret).found)
    /\ unwrap(ret).built.registry = <<"PauseContainer", "Search", "Quit">>
    /\ unwrap(ret).found = Some("Quit")

----------------------------------------------------------------------------
(* The CPU share of a refresh: docker.rs:98-113.  The tick counters are   *)
(* unsigned integers; the model keeps them TickBits wide.  The share is a *)
(* float in the code and an exact fraction here, zero being the fraction  *)
(* with numerator 0.                                                       *)

\* the width of a tick counter (64 in the code)
TickBits ==
    2

\* the largest number of online CPUs of a sample
MaxCpus ==
    2

TickModulus == 2 ^ TickBits

Ticks == 0 .. (TickModulus - 1)

OptionOf(S) == {None} \union {Some(x) : x \in S}

\* one stats sample of the daemon
StatsSamples ==
    [total_usage : Ticks, pre_total_usage : Ticks,
     system_cpu_usage : OptionOf(Ticks), pre_system_cpu_usage : OptionOf(Ticks),
     online_cpus : OptionOf(1 .. MaxCpus)]

unwrap_or(o, default) == IF is_some(o) THEN unwrap(o) ELSE default

checked_sub(a, b) == IF a >= b THEN Some(a - b) ELSE None

\* a - b on unsigned integers: None is the panic of a build with overflow
\* checks, and a build without them wraps
sub(a, b, overflow_checks) ==
    IF a >= b THEN Some(a - b)
    ELSE IF overflow_checks THEN None
    ELSE Some((a - b + TickModulus) % TickModulus)

ZeroShare == [num |-> 0, den |-> 1]

\* numerator / denominator
share(num, den) == IF num = 0 THEN ZeroShare ELSE [num |-> num, den |-> den]

\* the share of a sample; fault is the panic of the refresh task
cpu_usage(stats, overflow_checks) ==
    \* docker.rs:98-105
    LET cpu_container_usage ==
            unwrap_or(checked_sub(stats.total_usage, stats.pre_total_usage), 0)
        csu == unwrap_or(stats.system_cpu_usage, 0)
        psu == unwrap_or(stats.pre_system_cpu_usage, 0)
        \* docker.rs:106
        cpu_system_usage == sub(csu, psu, overflow_checks)
    IN  IF is_none(cpu_system_usage) THEN [fault |-> TRUE, value |-> ZeroShare]
        \* docker.rs:107-113
        ELSE IF unwrap(cpu_system_usage) > 0
        THEN [fault |-> FALSE,
              value |-> share(cpu_container_usage * 100
                                * unwrap_or(stats.online_cpus, 1),
                              unwrap(cpu_system_usage))]
        ELSE [fault |-> FALSE, value |-> ZeroShare]

\* the refresh computes the share of its sample, in a build with or without
\* overflow checks
CpuComputed(overflow_checks) ==
    /\ ret = None
    /\ Returns(Some(cpu_usage(arg, overflow_checks)))

NextCpu == \E overflow_checks \in BOOLEAN : CpuComputed(overflow_checks)

SpecCpu == InitCall(StatsSamples) /\ [][NextCpu]_vars

\* the system ticks of the sample did not advance
NoSystemDelta ==
    unwrap_or(arg.system_cpu_usage, 0) <= unwrap_or(arg.pre_system_cpu_usage, 0)

\* C19: when the current system-tick count of the sample is at most the
\* previous one, the share is exactly 0 and the refresh task does not fault
C19_NonPositiveDeltaIsZero ==
    (is_some(ret) /\ NoSystemDelta) =>
        /\ ~unwrap(ret).fault
        /\ unwrap(ret).value = ZeroShare

----------------------------------------------------------------------------
(* Errors of the daemon in the reconciliation loop: C20 *)

\* the reconciliation tasks that a panic has ended
Crashed == {t \in TaskIds : tasks[t].kind = "mgmt" /\ tasks[t].pc = "panicked"}

\* C20: no error of the daemon ends a reconciliation loop: a listing that
\* fails or a refresh that cannot be done is skipped, and the task goes on
\* to its next cycle
C20_ErrorsNeverEndLoop == Crashed = {}

----------------------------------------------------------------------------
(* A failed exec session and the foreground loop: C21 *)

\* C21: a Quit or SendCMD processed in the exec view returns Continue, also
\* when the exec task has ended and the receiver of the command channel is
\* dropped
C21_ExecFailureKeepsUi ==
    (ui.mode = "ExecCommand" /\ ui.action \in {"Quit", "SendCMD"}) => ui.ret = "Continue"

----------------------------------------------------------------------------
(* The outcome of the task awaited in a switch: C22 *)

\* the step in which the awaited task has a result and the new one starts
SwitchEnds == handler.pc = "abort" /\ handler'.pc = "idle"

\* C22: when a switch ends, a previous task that completed or was cancelled
\* is a success and nothing is reported, and a previous task that ended in
\* a panic is reported by the step that starts the new task
C22_FaultReported ==
    [][SwitchEnds =>
          IF tasks[handler.task].pc = "panicked"
          THEN Len(handler'.reported) > Len(handler.reported)
          ELSE handler'.reported = handler.reported]_vars

----------------------------------------------------------------------------
(* Daemon calls that never return: C23.  The stop call of the handler is   *)
(* awaited by the handler itself (handler.rs:73-77), and in this           *)
(* specification it never returns; the calls of the background tasks may   *)
(* hang as well, since no task is obliged to take its next step.           *)

KeysHang == {Char("l"), Char("s"), Esc, Down}

NextHang ==
    \/ \E key \in KeysHang : DoAction(key, 0)
    \/ Supervisor
    \/ HandleCall
    \/ \E t \in TaskIds : MgmtListed(t)
    \/ \E r \in refresh : RefreshUpdates(r)
    \/ \E t \in TaskIds : MgmtJoined(t)
    \/ \E t \in TaskIds : LogsFetched(t, <<<<"o">>>>, MaxLogs)
    \/ \E t \in TaskIds : LogsAdded(t)
    \/ \E t \in TaskIds : LogsWakes(t)
    \/ DaemonCreates("A")

SpecHang == Init /\ [][NextHang]_vars

\* The runtime polls the handler and drops cancelled tasks; nothing obliges
\* the daemon to answer or the user to press a key
FairHang ==
    /\ SpecHang
    /\ WF_vars(HandleSwitch)
    /\ WF_vars(SwitchDone)
    /\ WF_vars(HandleCall)
    /\ WF_vars(\E t \in TaskIds : TaskDropped(t))

\* the foreground loop, given the key, waits in dispatch for room in the
\* channel of IO events
SendWaits(key) ==
    /\ Alive
    /\ handler.pc # "dead"
    /\ Len(io_queue) + Len(do_action(App, key).io) > MaxIoQueue

\* C23: whatever daemon call hangs, the foreground loop does not wait for
\* ever: for every key, again and again the loop is able to process it
C23_LoopNeverStalls ==
    \A key \in KeysHang : []<>(~SendWaits(key))

----------------------------------------------------------------------------
(* The watermark of one log-tail session: docker.rs:140-167.  Time is     *)
(* counted in ticks, TicksPerSecond to the second.  The container writes  *)
(* one line at each time of arg; the daemon, asked for the lines since a  *)
(* second, returns those written in that second or later.  The state of   *)
(* the session is in ret.                                                  *)

\* the resolution of the clock
TicksPerSecond ==
    2

\* the last time of a session
MaxClock ==
    5

\* DateTime::timestamp: the whole seconds of a time
timestamp(time) == time \div TicksPerSecond

\* the line the container wrote at the time
LineAt(time) == <<ToString(time)>>

\* docker.logs(since, follow: false, tail: "all"): the lines written so
\* far in the second asked for or later, oldest first
RECURSIVE LinesFrom(_, _, _)
LinesFrom(written, time, clock) ==
    IF time > clock THEN <<>>
    ELSE (IF time \in written THEN <<LineAt(time)>> ELSE <<>>)
         \o LinesFrom(written, time + 1, clock)

docker_logs(written, since, clock) ==
    LinesFrom(written, since * TicksPerSecond, clock)

\* the session starts: now is the epoch
TailStarts ==
    /\ ret = None
    /\ Returns(Some([pc |-> "fetch", now |-> 0, clock |-> 0, wake |-> 0,
                     logs_vec |-> <<>>]))

\* time passes
TailTick ==
    /\ is_some(ret)
    /\ unwrap(ret).clock < MaxClock
    /\ Returns(Some([unwrap(ret) EXCEPT !.clock = @ + 1]))

\* the stream of one fetch, asked since now.timestamp(), is drained
TailFetches ==
    /\ is_some(ret)
    /\ unwrap(ret).pc = "fetch"
    /\ Returns(Some([unwrap(ret) EXCEPT
                        !.logs_vec = docker_logs(arg, timestamp(unwrap(ret).now),
                                                 unwrap(ret).clock),
                        !.pc = "stamp"]))

\* now = Utc::now()
TailStamps ==
    /\ is_some(ret)
    /\ unwrap(ret).pc = "stamp"
    /\ Returns(Some([unwrap(ret) EXCEPT !.now = unwrap(ret).clock, !.pc = "lock"]))

\* manager.lock().await.add_logs(logs_vec), and the sleep of a second begins
TailAdds ==
    /\ is_some(ret)
    /\ unwrap(ret).pc = "lock"
    /\ SetApp(add_logs(App, unwrap(ret).logs_vec))
    /\ ret' = Some([unwrap(ret) EXCEPT !.logs_vec = <<>>, !.pc = "sleep",
                                       !.wake = unwrap(ret).clock + TicksPerSecond])
    /\ UNCHANGED <<ui, io_queue, exec_chan, handler, active_task, tasks,
                   refresh, daemon, arg>>

\* the sleep is over
TailWakes ==
    /\ is_some(ret)
    /\ unwrap(ret).pc = "sleep"
    /\ unwrap(ret).clock >= unwrap(ret).wake
    /\ Returns(Some([unwrap(ret) EXCEPT !.pc = "fetch"]))

NextTail ==
    TailStarts \/ TailTick \/ TailFetches \/ TailStamps \/ TailAdds \/ TailWakes

SpecTail == InitCall(SUBSET (0 .. MaxClock)) /\ [][NextTail]_vars

\* C24: in one log-tail session the watermark never goes back, and no line
\* of the container is in the log buffer twice
C24_LinesAppendedOnce ==
    /\ [](\A i, j \in DOMAIN logs : logs[i] = logs[j] => i = j)
    /\ [][is_some(ret) => unwrap(ret').now >= unwrap(ret).now]_vars

----------------------------------------------------------------------------
(* Scrolling the log view: C25 *)

\* the step of the action taken in the log view: a step of the foreground
\* loop, which leaves the handler, the tasks and the daemon as they are
Scrolls(action) ==
    /\ is_logging(state) /\ ui'.mode = "Logging" /\ ui'.action = action
    /\ UNCHANGED <<io_queue, exec_chan, handler, active_task, tasks, refresh, daemon>>

\* the step leaves the buffer, the search and the mode as they are
ViewKept == logs' = logs /\ search' = search /\ state' = state

\* C25: ScrollUp adds exactly 1 to the position when position + 1 is less
\* than the length of the buffer and leaves it otherwise; ScrollDown takes
\* exactly 1 from a positive position and leaves 0 at 0; neither changes
\* the buffer, the search or the mode
C25_ScrollSaturates ==
    /\ [][Scrolls("ScrollUp") =>
            /\ log_position' = IF log_position + 1 < Len(logs)
                               THEN log_position + 1 ELSE log_position
            /\ ViewKept]_vars
    /\ [][Scrolls("ScrollDown") =>
            /\ log_position' = IF log_position > 0 THEN log_position - 1 ELSE 0
            /\ ViewKept]_vars

\* a ScrollDown took the position from 2 to 1
C25_Witness ==
    /\ is_logging(state)
    /\ ui.mode = "Logging" /\ ui.action = "ScrollDown"
    /\ log_position = 1 /\ Len(logs) = 3

----------------------------------------------------------------------------
(* The container collection: C26 *)

\* C26: in every state the collection holds at most one entry for an id and
\* its entries are in the order of their names
C26_UniqueAndSorted ==
    /\ \A i, j \in DOMAIN containers : containers[i].id = containers[j].id => i = j
    /\ \A i \in DOMAIN containers :
          i < Len(containers) => containers[i].name <= containers[i + 1].name

\* both containers are in the collection, B of the lesser name first, after
\* an upsert of A in the running cycle
C26_Witness ==
    /\ Len(containers) = 2
    /\ containers[1].id = "B"
    /\ \E t \in TaskIds : tasks[t].kind = "mgmt" /\ tasks[t].updated = {"A"}

----------------------------------------------------------------------------
(* pause_container: docker.rs:212-233, called by the handler for each      *)
(* IoEvent::PauseContainer (handler.rs:79-83).  ret holds the status of    *)
(* the container on the daemon and the mutating calls the daemon received. *)

\* the most pause requests of a run
MaxRequests ==
    3

\* ContainerStateStatusEnum
Statuses == {"empty", "created", "running", "paused", "restarting", "removing",
             "exited", "dead"}

\* a pause_container that does not look at the status
pause_always(inspect) == <<"pause_container">>

\* the mutating calls of one request; inspect is the status read by
\* inspect_container, None when the inspection failed
pause_container(inspect) ==
    CASE inspect = Some("running") -> <<"pause_container">>
      [] inspect = Some("paused") -> <<"unpause_container">>
      [] OTHER -> <<>>

\* the daemon carrying out the calls
RECURSIVE carried_out(_, _)
carried_out(status, calls) ==
    IF calls = <<>> THEN status
    ELSE carried_out(CASE Head(calls) = "pause_container" /\ status = "running" -> "paused"
                       [] Head(calls) = "unpause_container" /\ status = "paused" -> "running"
                       [] Head(calls) = "stop_container" /\ status = "running" -> "exited"
                       [] Head(calls) = "remove_container" -> "gone"
                       [] OTHER -> status,
                     Tail(calls))

\* the daemon and its record of calls after one request
requested(d, inspect) ==
    [status |-> carried_out(d.status, pause_container(inspect)),
     calls |-> d.calls \o pause_container(inspect),
     requests |-> d.requests + 1,
     inspect |-> inspect]

\* the container is there, in the status of arg
PauseStarts ==
    /\ ret = None
    /\ Returns(Some([status |-> arg, calls |-> <<>>, requests |-> 0, inspect |-> None]))

\* the handler takes a PauseContainer event; the inspection succeeds or not
PauseRequest(inspected) ==
    /\ is_some(ret)
    /\ unwrap(ret).requests < MaxRequests
    /\ Returns(Some(requested(unwrap(ret),
                              IF inspected THEN Some(unwrap(ret).status) ELSE None)))

\* the container changes its status by itself
StatusChanges(status) ==
    /\ is_some(ret)
    /\ unwrap(ret).status # status
    /\ Returns(Some([unwrap(ret) EXCEPT !.status = status]))

NextPause ==
    \/ PauseStarts
    \/ \E inspected \in BOOLEAN : PauseRequest(inspected)
    \/ \E status \in {"running", "exited"} : StatusChanges(status)

SpecPause == InitCall(Statuses) /\ [][NextPause]_vars

\* the step of one pause request
Requested == is_some(ret) /\ unwrap(ret').requests = unwrap(ret).requests + 1

\* the calls the step added to the record of the daemon
Issued == SubSeq(unwrap(ret').calls, Len(unwrap(ret).calls) + 1, Len(unwrap(ret').calls))

\* C27: one pause request issues exactly one pause_container on a running
\* container, exactly one unpause_container on a paused one, and no
\* mutating call on any other status or when the inspection failed; two
\* requests in a row on a running container leave it running
C27_PauseActsOnStatus ==
    /\ [][Requested =>
            /\ unwrap(ret).calls = SubSeq(unwrap(ret').calls, 1, Len(unwrap(ret).calls))
            /\ Issued = IF unwrap(ret').inspect = None THEN <<>>
                        ELSE IF unwrap(ret).status = "running" THEN <<"pause_container">>
                        ELSE IF unwrap(ret).status = "paused" THEN <<"unpause_container">>
                        ELSE <<>>]_vars
    /\ []((is_some(ret) /\ unwrap(ret).status = "running") =>
            \E twice \in {requested(requested(unwrap(ret), Some("running")),
                                    Some("paused"))} :
                /\ twice.status = "running"
                /\ twice.calls = unwrap(ret).calls
                                   \o <<"pause_container", "unpause_container">>)

\* a running container was paused by one request and resumed by the next
C27_Witness ==
    /\ is_some(ret)
    /\ unwrap(ret).calls = <<"pause_container", "unpause_container">>
    /\ unwrap(ret).requests = 2
    /\ unwrap(ret).status = "running"

----------------------------------------------------------------------------
(* Removals and refreshes of one cycle: C28 *)

\* the refresh tasks of the running cycle of the reconciliation task
RefreshOf(t) == {r \in refresh : r.parent = t}

\* C28: while a reconciliation task applies the removals of a cycle, no
\* refresh task of the cycle has been started and none has upserted; and in
\* no cycle is an id both removed and refreshed
C28_RemovalsBeforeRefresh ==
    \A t \in TaskIds :
        tasks[t].kind = "mgmt" =>
            /\ tasks[t].pc = "remove" => RefreshOf(t) = {} /\ tasks[t].updated = {}
            /\ tasks[t].to_remove
                 \intersect (tasks[t].updated \union {r.id : r \in RefreshOf(t)}) = {}

\* a cycle that removed one container and upserted the other
C28_Witness ==
    \E t \in TaskIds :
        /\ Mgmt(t)
        /\ tasks[t].pc = "join"
        /\ tasks[t].to_remove = {"A"}
        /\ tasks[t].updated = {"B"}
        /\ "A" \notin Ids(containers)

----------------------------------------------------------------------------
(* The Application lock: who holds it and where.  The foreground loop      *)
(* (lib.rs:30-44) and three background tasks, the log-tail task            *)
(* (docker.rs:147-166), a refresh task (docker.rs:71-138) and the          *)
(* reconciliation task in its removals (docker.rs:41-43), each at a        *)
(* position of its code, with the number of IO events in the channel of    *)
(* the handler.  The state is in ret.                                      *)

BackgroundTasks == {"logs", "refresh", "reconciliation"}

\* the program starts: nobody holds the lock
LockStarts ==
    /\ ret = None
    /\ Returns(Some([holder |-> "none", ui |-> "lock", queued |-> 0,
                     task |-> [b \in BackgroundTasks |-> "call"]]))

\* lib.rs:31: let mut app = app.lock().await
UiLocks ==
    /\ is_some(ret)
    /\ unwrap(ret).ui = "lock"
    /\ unwrap(ret).holder = "none"
    /\ Returns(Some([unwrap(ret) EXCEPT !.holder = "ui", !.ui = "draw"]))

\* lib.rs:32: terminal.draw, and the loop awaits events.next()
UiDraws ==
    /\ is_some(ret)
    /\ unwrap(ret).ui = "draw"
    /\ Returns(Some([unwrap(ret) EXCEPT !.ui = "next"]))

\* lib.rs:34-37: the input layer delivers a tick or a key; the handler of
\* the key dispatches an IO event or not
UiInput(event) ==
    /\ is_some(ret)
    /\ unwrap(ret).ui = "next"
    /\ Returns(Some([unwrap(ret) EXCEPT
                        !.ui = IF event = "dispatching key" THEN "send" ELSE "end"]))

\* app/mod.rs:251-255: io_tx.send(action).await, which waits for room
UiSends ==
    /\ is_some(ret)
    /\ unwrap(ret).ui = "send"
    /\ unwrap(ret).queued < MaxIoQueue
    /\ Returns(Some([unwrap(ret) EXCEPT !.queued = @ + 1, !.ui = "end"]))

\* lib.rs:44: the guard goes out of scope at the end of the iteration
UiEnds ==
    /\ is_some(ret)
    /\ unwrap(ret).ui = "end"
    /\ Returns(Some([unwrap(ret) EXCEPT !.holder = "none", !.ui = "lock"]))

\* main.rs:37: the handler receives an event
HandlerReceives ==
    /\ is_some(ret)
    /\ unwrap(ret).queued > 0
    /\ Returns(Some([unwrap(ret) EXCEPT !.queued = @ - 1]))

\* the daemon call or the sleep of the task ended: it asks for the lock
TaskCalls(b) ==
    /\ is_some(ret)
    /\ unwrap(ret).task[b] = "call"
    /\ Returns(Some([unwrap(ret) EXCEPT !.task[b] = "lock"]))

\* manager.lock().await
TaskLocks(b) ==
    /\ is_some(ret)
    /\ unwrap(ret).task[b] = "lock"
    /\ unwrap(ret).holder = "none"
    /\ Returns(Some([unwrap(ret) EXCEPT !.holder = b, !.task[b] = "mutate"]))

\* add_logs / update_containers / remove_container, and the guard is dropped
\* with the statement
TaskMutates(b) ==
    /\ is_some(ret)
    /\ unwrap(ret).task[b] = "mutate"
    /\ Returns(Some([unwrap(ret) EXCEPT !.holder = "none", !.task[b] = "call"]))

NextLock ==
    \/ LockStarts
    \/ UiLocks
    \/ UiDraws
    \/ \E event \in {"tick", "key", "dispatching key"} : UiInput(event)
    \/ UiSends
    \/ UiEnds
    \/ HandlerReceives
    \/ \E b \in BackgroundTasks : TaskCalls(b)
    \/ \E b \in BackgroundTasks : TaskLocks(b)
    \/ \E b \in BackgroundTasks : TaskMutates(b)

SpecLock == Init /\ [][NextLock]_vars

\* C29: whoever holds the Application lock is at a state mutation: the
\* foreground loop holds it neither while it waits for input nor while it
\* waits in a send, and a background task holds it only in its mutation
C29_NoLockAcrossSuspension ==
    is_some(ret) =>
        /\ unwrap(ret).holder = "ui" => unwrap(ret).ui \notin {"next", "send"}
        /\ \A b \in BackgroundTasks :
              unwrap(ret).holder = b => unwrap(ret).task[b] = "mutate"

----------------------------------------------------------------------------
(* A refresh task that panics: C30.  Reconciliation cycles over two        *)
(* containers whose refresh tasks may panic.                               *)

NextJoin ==
    \/ HandleSwitch
    \/ \E t \in TaskIds : MgmtListed(t)
    \/ \E t \in TaskIds, id \in ContainerIds : MgmtRemoves(t, id)
    \/ \E r \in refresh : RefreshUpdates(r)
    \/ \E r \in refresh : RefreshPanics(r)
    \/ \E t \in TaskIds : MgmtJoined(t)
    \/ \E t \in TaskIds : MgmtJoinPanics(t)
    \/ \E id \in ContainerIds : DaemonCreates(id)
    \/ \E id \in ContainerIds : DaemonRemoves(id)

SpecJoin == Init /\ [][NextJoin]_vars

\* the step in which the reconciliation task re-raises the panic of a refresh
Reraised(t) == tasks[t].pc = "join" /\ tasks'[t].pc = "panicked"

\* C30: when the reconciliation task re-raises the panic of a refresh task,
\* every refresh task of the cycle has been awaited to its end: none of them
\* is still running
C30_ReraisedAfterBatchJoin ==
    [][\A t \in TaskIds : Reraised(t) => ~\E r \in refresh : r.parent = t]_vars

----------------------------------------------------------------------------
(* Sending a command: C31 *)

\* C31: in the exec view with the channel open, SendCMD with the pending
\* text c transmits c and a newline, appends that text to the last line of
\* the buffer (to nothing when the buffer is empty), records it as the last
\* command, empties the pending text and leaves the mode
C31_SendCommand ==
    (is_exec_command(state) /\ is_some(exec_tx) /\ exec_chan.rx = "open") =>
        \E o \in {do_action(App, Enter)} :
            \E c \in {exec_cmd \o <<NL>>} :
                /\ o.tx = <<c>>
                /\ o.app.logs = IF logs = <<>> THEN <<>>
                                ELSE SubSeq(logs, 1, Len(logs) - 1)
                                        \o <<logs[Len(logs)] \o c>>
                /\ o.app.last_cmd = Some(c)
                /\ o.app.exec_cmd = <<>>
                /\ o.app.state = state
                /\ o.ret = "Continue"

\* a command was sent and echoed at the end of the last line, the output "i"
C31_Witness ==
    /\ is_exec_command(state)
    /\ ui.mode = "ExecCommand" /\ ui.action = "SendCMD" /\ ui.ret = "Continue"
    /\ is_some(last_cmd)
    /\ exec_cmd = <<>>
    /\ exec_chan.q = <<unwrap(last_cmd)>>
    /\ logs # <<>>
    /\ logs[Len(logs)] = <<"i">> \o unwrap(last_cmd)

----------------------------------------------------------------------------
(* The registry follows the mode: C32, C33 *)

\* C32: in every state the registry is the one of the current mode
C32_RegistryOfMode == actions = get_actions(state)

\* the exec view was left by the "exit" of the remote shell, not by a key:
\* the mode is Monitoring with its registry while the exec task is attached
C32_Witness ==
    /\ is_monitoring(state)
    /\ ui.action = "ExecCommands"
    /\ actions = <<"Quit", "ShowLogs", "ExecCommands", "Next", "Previous", "StopContainer">>
    /\ \E t \in TaskIds : ExecTask(t) /\ tasks[t].pc = "attached"

Modes == {Monitoring} \union {Logging(c) : c \in ContainerIds}
            \union {ExecCommand(c) : c \in ContainerIds}

\* C33: the action list of every mode has no key bound to two of its
\* actions, so building the registry of a mode never panics, and no change
\* of mode has ended the program with a conflict
C33_NoConflictInAnyMode ==
    /\ state \in Modes
    /\ \A st \in Modes :
          /\ \A i, j \in DOMAIN get_actions(st) :
                i # j => SeqToSet(keys(get_actions(st)[i]))
                           \intersect SeqToSet(keys(get_actions(st)[j])) = {}
          /\ ~from(get_actions(st)).panic
    /\ actions # <<"panic">>

\* the three modes were entered in turn: the exec view after the log view
C33_Witness ==
    /\ is_exec_command(state)
    /\ ui.mode = "Monitoring" /\ ui.action = "ExecCommands" /\ ui.ret = "Continue"
    /\ \E t \in TaskIds : tasks[t].kind = "logs"

----------------------------------------------------------------------------
(* The changes of mode: C34 *)

\* the pairs of modes a step may go between
Edges == {<<"Monitoring", "Logging">>, <<"Monitoring", "ExecCommand">>,
          <<"Logging", "Monitoring">>, <<"ExecCommand", "Monitoring">>}

----------------------------------------------------------------------------
(* The search outside the log view: C35 *)

\* C35: there is a search only in the log view: in Monitoring and in the
\* exec view the search is None, and a character key is not taken as input
\* of a search
C35_SearchOnlyInLogView ==
    ~is_logging(state) =>
        /\ is_none(search)
        /\ do_action(App, Char("e")).app.search = None

----------------------------------------------------------------------------
(* The buffer outside the views: C36 *)

\* C36: whenever the mode is Monitoring the log buffer is empty and the
\* scroll position is 0
C36_MonitoringBufferEmpty ==
    is_monitoring(state) => logs = <<>> /\ log_position = 0

----------------------------------------------------------------------------
(* The selection and the collection: C37 *)

\* C37: the selected container, when there is one, is the id of an entry of
\* the collection, so that no event is dispatched for a container that is
\* not listed
C37_SelectionIsListed ==
    is_some(selected_container) => unwrap(selected_container) \in Ids(containers)

----------------------------------------------------------------------------
(* Moving the selection: C38 *)

\* the index of the selected container in the collection, or -1 for no
\* selection
SelectedIndex ==
    IF is_none(selected_container) THEN -1
    ELSE CHOOSE i \in 0 .. (Len(containers) - 1) :
             containers[i + 1].id = unwrap(selected_container)

\* the App with the entry at the index selected, None on an empty collection
Selecting(index) ==
    [App EXCEPT !.selected_container =
        IF containers = <<>> THEN None ELSE Some(containers[index + 1].id)]

\* C38: in Monitoring, with the selection absent or at index i of n entries,
\* Next selects the entry at min(i + 1, n - 1) and Previous the one at
\* max(i - 1, 0), both select index 0 without a selection and None on an
\* empty collection, and nothing else of the App changes
C38_SelectionSaturates ==
    (/\ is_monitoring(state) /\ is_none(search)
     /\ is_some(selected_container) => unwrap(selected_container) \in Ids(containers)) =>
        \E i \in {SelectedIndex}, n \in {Len(containers)} :
            /\ next(App) = Selecting(IF i = -1 THEN 0
                                     ELSE IF i + 1 < n - 1 THEN i + 1 ELSE n - 1)
            /\ previous(App) = Selecting(IF i = -1 THEN 0
                                         ELSE IF i - 1 > 0 THEN i - 1 ELSE 0)
            /\ do_action(App, Down) = Continue(next(App))
            /\ do_action(App, Up) = Continue(previous(App))

\* Next moved the selection to the second of two entries
C38_Witness ==
    /\ is_monitoring(state)
    /\ ui.mode = "Monitoring" /\ ui.action = "Next"
    /\ Len(containers) = 2
    /\ selected_container = Some(containers[2].id)

----------------------------------------------------------------------------
(* Lines a log-tail session never delivers: C39 *)

\* the lines in the buffer
Delivered == {logs[i] : i \in DOMAIN logs}

\* C39: no line is lost: once the lines of a fetch are in the buffer, every
\* line the container wrote in a second before the one of the watermark is
\* in the buffer (the next fetches ask only for lines of the second of the
\* watermark or later, so a line missing here is never appended)
C39_NoLineLost ==
    (is_some(ret) /\ unwrap(ret).pc \in {"sleep", "fetch"}) =>
        \A time \in arg :
            timestamp(time) < timestamp(unwrap(ret).now) => LineAt(time) \in Delivered

----------------------------------------------------------------------------
(* stop_container: docker.rs:169-210, called by the handler for each       *)
(* IoEvent::StopContainer (handler.rs:73-77).  As for pause_container, ret *)
(* holds the status of the container on the daemon and the mutating calls  *)
(* the daemon received; a container removed is "gone", and its inspection  *)
(* fails.                                                                  *)

\* a stop_container that does not look at the status
stop_always(inspect) == <<"stop_container">>

\* the mutating calls of one request; inspect is the status read by
\* inspect_container, None when the inspection failed
stop_container(inspect) ==
    CASE inspect = Some("running") -> <<"stop_container">>
      [] inspect \in {Some("exited"), Some("created")} -> <<"remove_container">>
      [] OTHER -> <<>>

\* the container is there, in the status of arg
StopStarts ==
    /\ ret = None
    /\ Returns(Some([status |-> arg, calls |-> <<>>, requests |-> 0, inspect |-> None]))

\* the handler takes a StopContainer event; the inspection succeeds or not
StopRequest(inspected) ==
    /\ is_some(ret)
    /\ unwrap(ret).requests < MaxRequests
    /\ \E inspect \in {IF inspected /\ unwrap(ret).status # "gone"
                       THEN Some(unwrap(ret).status) ELSE None} :
          Returns(Some([status |-> carried_out(unwrap(ret).status, stop_container(inspect)),
                        calls |-> unwrap(ret).calls \o stop_container(inspect),
                        requests |-> unwrap(ret).requests + 1,
                        inspect |-> inspect]))

NextStop ==
    \/ StopStarts
    \/ \E inspected \in BOOLEAN : StopRequest(inspected)
    \/ \E status \in {"running", "paused"} :
          is_some(ret) /\ unwrap(ret).status # "gone" /\ StatusChanges(status)

SpecStop == InitCall(Statuses) /\ [][NextStop]_vars

\* C40: one stop request issues exactly one stop_container on a running
\* container, one forced remove_container on an exited or created one, and
\* no mutating call on any other status or when the inspection failed; and
\* it leaves the Application as it is
C40_StopActsOnStatus ==
    [][Requested =>
          /\ unwrap(ret).calls = SubSeq(unwrap(ret').calls, 1, Len(unwrap(ret).calls))
          /\ Issued = IF unwrap(ret').inspect = None THEN <<>>
                      ELSE IF unwrap(ret).status = "running" THEN <<"stop_container">>
                      ELSE IF unwrap(ret).status \in {"exited", "created"}
                      THEN <<"remove_container">>
                      ELSE <<>>
          /\ UNCHANGED appvars]_vars

\* a running container was stopped by one request and removed by the next
C40_Witness ==
    /\ is_some(ret)
    /\ unwrap(ret).calls = <<"stop_container", "remove_container">>
    /\ unwrap(ret).requests = 2
    /\ unwrap(ret).status = "gone"

=============================================================================
